---- MODULE Spec2Model ----
(***************************************************************************)
(* Model of client/src/pages/Home.tsx: the opening-hours check, the        *)
(* today's-hours label, the WhatsApp order / inquiry links, the address    *)
(* formatting of the landing page, and the Home view with its mount        *)
(* effects, one-minute refresh interval, scroll listener and cleanups.     *)
(*                                                                         *)
(* A JavaScript string is modelled as the sequence of its UTF-16 code      *)
(* units (naturals), so that the relational operators on strings, the      *)
(* template literals and encodeURIComponent are computed as the engine     *)
(* computes them.  Every literal below carries its text in a comment.      *)
(***************************************************************************)
EXTENDS Integers, Sequences, FiniteSets, TLC

VARIABLES
    openingHours,   \* the weekly table in force (OPENING_HOURS)
    now,            \* what `new Date()` yields: [day, hours, minutes]
    pcHours,        \* which of the two evaluator calls have run
    isOpen,         \* value returned by isRestaurantOpen()
    todayHours,     \* value returned by getTodayHours()
    product,        \* first argument of createWhatsAppLink
    price,          \* second argument: [given, str], given = FALSE when omitted
    pcOrder,        \* "ready" before createWhatsAppLink has run, "done" after
    message,        \* the `message` constant of createWhatsAppLink
    href,           \* outcome of createWhatsAppLink: [threw, value]
    address,        \* the address record in force (RESTAURANT_ADDRESS)
    clipboard,      \* [written, text]: what navigator.clipboard.writeText got
    opened,         \* [by, url]: what the last window.open call got
    inquiry,        \* [built, text]: the `message` of openWhatsAppDelivery
    addressLines,   \* what getFormattedAddressLines() returned to the render
    lastHandler,    \* the address handler that ran last
    uncaught,       \* TRUE when that handler ended by an uncaught exception
    view,           \* "rendered" (effects not yet run), "mounted", "unmounted"
    pcRefresh,      \* position inside a refresh: "idle", "mountLabel", "tickLabel"
    intervals,      \* number of live setInterval timers
    tickDue,        \* the timer's 60000 ms have elapsed, its callback is pending
    ticked,         \* the interval callback has run at least once
    dateOpen,       \* the `now` of the last isRestaurantOpen() call of the view
    dateLabel,      \* the `now` of the last getTodayHours() call of the view
    scrollListener, \* handleScroll is registered on window
    scrollY,        \* window.scrollY
    showFloatingButton, \* the showFloatingButton state
    lastEvent,      \* the effect, callback or listener that ran last
    minutes         \* minutes the clock has advanced since the start

hoursVars == <<openingHours, now, pcHours, isOpen, todayHours>>

orderVars == <<product, price, pcOrder, message, href>>

addressVars ==
    <<address, clipboard, opened, inquiry, addressLines, lastHandler, uncaught>>

viewVars ==
    <<view, pcRefresh, intervals, tickDue, ticked, dateOpen, dateLabel,
      scrollListener, scrollY, showFloatingButton, lastEvent, minutes>>

vars == <<hoursVars, orderVars, addressVars, viewVars>>

---------------------------------------------------------------------------
(* JavaScript string primitives                                            *)

\* a < b on strings: lexicographic on code units, a proper prefix is smaller
RECURSIVE StrLT(_, _)
StrLT(a, b) ==
    IF b = <<>> THEN FALSE
    ELSE IF a = <<>> THEN TRUE
    ELSE IF a[1] = b[1] THEN StrLT(Tail(a), Tail(b))
    ELSE a[1] < b[1]

\* a >= b on strings
StrGE(a, b) == ~StrLT(a, b)

\* String(n) for a non-negative integer n: its decimal digits
RECURSIVE NumberToString(_)
NumberToString(n) ==
    IF n < 10 THEN <<48 + n>>
    ELSE NumberToString(n \div 10) \o <<48 + (n % 10)>>

\* s.padStart(targetLength, pad) for a one-unit pad string
RECURSIVE padStart(_, _, _)
padStart(s, targetLength, pad) ==
    IF Len(s) >= targetLength THEN s
    ELSE padStart(<<pad>> \o s, targetLength, pad)

---------------------------------------------------------------------------
(* No Date has been constructed yet                                        *)

NoDate == [day |-> -1, hours |-> -1, minutes |-> -1]

---------------------------------------------------------------------------
(* Outcome of a call that may throw                                        *)

Return(v) == [threw |-> FALSE, value |-> v]

\* the URIError encodeURIComponent throws
URIError == [threw |-> TRUE, value |-> <<>>]

---------------------------------------------------------------------------
(* encodeURIComponent (ECMAScript Encode with the unescaped set            *)
(* uriUnreserved = letters, digits and - _ . ! ~ * ' ( ) )                 *)

uriUnreserved ==
    (65..90) \cup (97..122) \cup (48..57) \cup {45, 95, 46, 33, 126, 42, 39, 40, 41}

\* ; / ? : @ & = + $ ,  and  #  : what encodeURI leaves as well
uriReservedPlusHash == {59, 47, 63, 58, 64, 38, 61, 43, 36, 44, 35}

IsHighSurrogate(c) == c \in 55296..56319
IsLowSurrogate(c) == c \in 56320..57343

\* the code point of a surrogate pair
PairCodePoint(hi, lo) == (hi - 55296) * 1024 + (lo - 56320) + 65536

\* the UTF-8 octets of a code point
UTF8(v) ==
    IF v < 128 THEN <<v>>
    ELSE IF v < 2048 THEN <<192 + (v \div 64), 128 + (v % 64)>>
    ELSE IF v < 65536
         THEN <<224 + (v \div 4096), 128 + ((v \div 64) % 64), 128 + (v % 64)>>
    ELSE <<240 + (v \div 262144), 128 + ((v \div 4096) % 64),
           128 + ((v \div 64) % 64), 128 + (v % 64)>>

\* an uppercase hexadecimal digit
HexDigit(n) == IF n < 10 THEN 48 + n ELSE 55 + n

\* "%XY" for every octet
RECURSIVE PercentOctets(_)
PercentOctets(bs) ==
    IF bs = <<>> THEN <<>>
    ELSE <<37, HexDigit(Head(bs) \div 16), HexDigit(Head(bs) % 16)>>
            \o PercentOctets(Tail(bs))

\* a prefix followed by the outcome r of an encoding
Behind(units, r) == IF r.threw THEN r ELSE Return(units \o r.value)

\* pieces[lo] \o ... \o pieces[hi]
RECURSIVE Join(_, _, _)
Join(pieces, lo, hi) ==
    IF lo > hi THEN <<>>
    ELSE IF lo = hi THEN pieces[lo]
    ELSE Join(pieces, lo, (lo + hi) \div 2) \o Join(pieces, (lo + hi) \div 2 + 1, hi)

\* the code unit at k is a surrogate without its partner: Encode throws there
UnpairedAt(s, k) ==
    \/ IsHighSurrogate(s[k]) /\ (k = Len(s) \/ ~IsLowSurrogate(s[k + 1]))
    \/ IsLowSurrogate(s[k]) /\ (k = 1 \/ ~IsHighSurrogate(s[k - 1]))

\* what Encode appends for the code unit at k of a string without unpaired
\* surrogates: a low surrogate was consumed with the high one before it
EncodedAt(s, k, unescaped) ==
    IF s[k] \in unescaped THEN <<s[k]>>
    ELSE IF IsHighSurrogate(s[k]) THEN PercentOctets(UTF8(PairCodePoint(s[k], s[k + 1])))
    ELSE IF IsLowSurrogate(s[k]) THEN <<>>
    ELSE PercentOctets(UTF8(s[k]))

Encode(s, unescaped) ==
    IF \E k \in 1..Len(s) : UnpairedAt(s, k) THEN URIError
    ELSE Return(Join([k \in 1..Len(s) |-> EncodedAt(s, k, unescaped)], 1, Len(s)))

\* variant: encodeURI, which also leaves the reserved characters and '#' alone
encodeURI(s) == Encode(s, uriUnreserved \cup uriReservedPlusHash)

\* variant: a URIError for every character outside ASCII
encodeURIComponent_AsciiOnly(s) ==
    IF \E k \in 1..Len(s) : s[k] > 127 THEN URIError ELSE Encode(s, uriUnreserved)

encodeURIComponent(s) == Encode(s, uriUnreserved)

---------------------------------------------------------------------------
(* Configuration                                                           *)

T1100 == <<49, 49, 58, 48, 48>>     \* "11:00"
T2300 == <<50, 51, 58, 48, 48>>     \* "23:00"
T2330 == <<50, 51, 58, 51, 48>>     \* "23:30"
T0030 == <<48, 48, 58, 51, 48>>     \* "00:30"

\* the shipped table, 0 = Sunday .. 6 = Saturday
OPENING_HOURS ==
    (0 :> [open |-> T1100, close |-> T2300]) @@
    (1 :> [open |-> T1100, close |-> T2330]) @@
    (2 :> [open |-> T1100, close |-> T2330]) @@
    (3 :> [open |-> T1100, close |-> T2330]) @@
    (4 :> [open |-> T1100, close |-> T2330]) @@
    (5 :> [open |-> T1100, close |-> T0030]) @@
    (6 :> [open |-> T1100, close |-> T0030])

\* "5511999999999"
WHATSAPP_NUMBER == <<53, 53, 49, 49, 57, 57, 57, 57, 57, 57, 57, 57, 57>>

\* the shipped address (lat / lng feed only the map marker and are left out)
RESTAURANT_ADDRESS ==
    [street |-> <<82, 117, 97, 32, 100, 97, 115, 32, 70, 108, 111, 114, 101,
                  115, 44, 32, 49, 50, 51>>,                \* "Rua das Flores, 123"
     neighborhood |-> <<67, 101, 110, 116, 114, 111>>,      \* "Centro"
     city |-> <<83, 227, 111, 32, 80, 97, 117, 108, 111>>,  \* "São Paulo"
     state |-> <<83, 80>>,                                  \* "SP"
     zipcode |-> <<48, 49, 51, 49, 48, 45, 49, 48, 48>>]    \* "01310-100"

Fechado == <<70, 101, 99, 104, 97, 100, 111>>   \* "Fechado"
Dash == <<32, 45, 32>>                            \* " - "

---------------------------------------------------------------------------
(* Schedule evaluator                                                      *)

\* variant: the fields without padStart
currentTime_NoPad(date) ==
    NumberToString(date.hours) \o <<58>> \o NumberToString(date.minutes)

\* `${String(now.getHours()).padStart(2,"0")}:${String(now.getMinutes()).padStart(2,"0")}`
currentTime(date) ==
    padStart(NumberToString(date.hours), 2, 48) \o <<58>>
        \o padStart(NumberToString(date.minutes), 2, 48)

\* variant: `currentTime <= hours.close`
isRestaurantOpen_InclusiveClose(tbl, date) ==
    IF date.day \notin DOMAIN tbl THEN FALSE
    ELSE StrGE(currentTime(date), tbl[date.day].open)
         /\ ~StrLT(tbl[date.day].close, currentTime(date))

\* variant: a weekday without an entry counts as open
isRestaurantOpen_NoGuard(tbl, date) ==
    IF date.day \notin DOMAIN tbl THEN TRUE
    ELSE StrGE(currentTime(date), tbl[date.day].open)
         /\ StrLT(currentTime(date), tbl[date.day].close)

\* variant: an entry with close < open wraps over midnight
isRestaurantOpen_Rollover(tbl, date) ==
    IF date.day \notin DOMAIN tbl THEN FALSE
    ELSE IF StrLT(tbl[date.day].close, tbl[date.day].open)
         THEN StrGE(currentTime(date), tbl[date.day].open)
              \/ StrLT(currentTime(date), tbl[date.day].close)
         ELSE StrGE(currentTime(date), tbl[date.day].open)
              /\ StrLT(currentTime(date), tbl[date.day].close)

\* isRestaurantOpen(), with the table and the Date it reads made explicit
isRestaurantOpen(tbl, date) ==
    IF date.day \notin DOMAIN tbl THEN FALSE
    ELSE StrGE(currentTime(date), tbl[date.day].open)
         /\ StrLT(currentTime(date), tbl[date.day].close)

\* variant: the hours are shown only while open
getTodayHours_WhenOpen(tbl, date) ==
    IF isRestaurantOpen(tbl, date)
    THEN tbl[date.day].open \o Dash \o tbl[date.day].close
    ELSE Fechado

\* getTodayHours(), with the table and the Date it reads made explicit
getTodayHours(tbl, date) ==
    IF date.day \in DOMAIN tbl
    THEN tbl[date.day].open \o Dash \o tbl[date.day].close
    ELSE Fechado

---------------------------------------------------------------------------
(* Link builder                                                            *)

WaMe == <<104, 116, 116, 112, 115, 58, 47, 47, 119, 97, 46, 109, 101, 47>>  \* "https://wa.me/"
TextParam == <<63, 116, 101, 120, 116, 61>>                                  \* "?text="
QueroPedir == <<81, 117, 101, 114, 111, 32, 112, 101, 100, 105, 114, 58, 32>> \* "Quero pedir: "
OpenParenReais == <<32, 40, 82, 36, 32>>                                     \* " (R$ "
CloseParen == <<41>>                                                         \* ")"

\* an optional string argument
Omitted == [given |-> FALSE, str |-> <<>>]
Given(str) == [given |-> TRUE, str |-> str]

\* truthiness of an optional string: undefined and "" are falsy
Truthy(arg) == arg.given /\ arg.str # <<>>

\* variant: `price !== undefined ?`
orderMessage_WhenDefined(prod, amt) ==
    IF amt.given
    THEN QueroPedir \o prod \o OpenParenReais \o amt.str \o CloseParen
    ELSE QueroPedir \o prod

\* the `message` of createWhatsAppLink
orderMessage(prod, amt) ==
    IF Truthy(amt)
    THEN QueroPedir \o prod \o OpenParenReais \o amt.str \o CloseParen
    ELSE QueroPedir \o prod

\* variant: the message interpolated without encoding
createWhatsAppLink_Raw(prod, amt) ==
    Return(WaMe \o WHATSAPP_NUMBER \o TextParam \o orderMessage(prod, amt))

\* `https://wa.me/${WHATSAPP_NUMBER}?text=${encodeURIComponent(message)}`
createWhatsAppLink(prod, amt) ==
    Behind(WaMe \o WHATSAPP_NUMBER \o TextParam,
           encodeURIComponent(orderMessage(prod, amt)))

---------------------------------------------------------------------------
(* Address formatter and its handlers                                      *)

CommaSpace == <<44, 32>>    \* ", "

\* "https://www.google.com/maps/search/"
MapsSearch ==
    <<104, 116, 116, 112, 115, 58, 47, 47, 119, 119, 119, 46, 103, 111, 111,
      103, 108, 101, 46, 99, 111, 109, 47, 109, 97, 112, 115, 47, 115, 101,
      97, 114, 99, 104, 47>>

\* "Olá! Vocês fazem entrega no meu endereço? "
OlaVocesFazemEntrega ==
    <<79, 108, 225, 33, 32, 86, 111, 99, 234, 115, 32, 102, 97, 122, 101, 109,
      32, 101, 110, 116, 114, 101, 103, 97, 32, 110, 111, 32, 109, 101, 117,
      32, 101, 110, 100, 101, 114, 101, 231, 111, 63, 32>>

\* variant: the zipcode appended
getFullAddress_WithZipcode(addr) ==
    addr.street \o CommaSpace \o addr.neighborhood \o CommaSpace
        \o addr.city \o Dash \o addr.state \o CommaSpace \o addr.zipcode

\* getFullAddress(), with the record it reads made explicit
getFullAddress(addr) ==
    addr.street \o CommaSpace \o addr.neighborhood \o CommaSpace
        \o addr.city \o Dash \o addr.state

\* variant: the address interpolated without encoding
getGoogleMapsUrl_Raw(addr) == Return(MapsSearch \o getFullAddress(addr))

getGoogleMapsUrl(addr) ==
    Behind(MapsSearch, encodeURIComponent(getFullAddress(addr)))

\* variant: city and neighborhood swapped
getFormattedAddressLines_CityFirst(addr) ==
    <<addr.street,
      addr.city \o CommaSpace \o addr.neighborhood \o Dash \o addr.state,
      addr.zipcode>>

getFormattedAddressLines(addr) ==
    <<addr.street,
      addr.neighborhood \o CommaSpace \o addr.city \o Dash \o addr.state,
      addr.zipcode>>

\* the `message` of openWhatsAppDelivery
deliveryMessage(addr) == OlaVocesFazemEntrega \o getFullAddress(addr)

\* variant: encodeURI in place of encodeURIComponent
deliveryUrl_EncodeURI(addr) ==
    Behind(WaMe \o WHATSAPP_NUMBER \o TextParam, encodeURI(deliveryMessage(addr)))

\* the first argument of window.open in openWhatsAppDelivery
deliveryUrl(addr) ==
    Behind(WaMe \o WHATSAPP_NUMBER \o TextParam,
           encodeURIComponent(deliveryMessage(addr)))

\* onClick={copyAddressToClipboard}
copyAddressToClipboard ==
    /\ clipboard' = [written |-> TRUE, text |-> getFullAddress(address)]
    /\ lastHandler' = "copyAddressToClipboard"
    /\ uncaught' = FALSE
    /\ UNCHANGED <<address, opened, inquiry, addressLines, hoursVars, orderVars, viewVars>>

\* onClick={openGoogleMaps}: window.open is reached only if the URL was built
openGoogleMaps ==
    /\ LET url == getGoogleMapsUrl(address)
       IN  /\ opened' = IF url.threw THEN opened
                        ELSE [by |-> "openGoogleMaps", url |-> url.value]
           /\ uncaught' = url.threw
    /\ lastHandler' = "openGoogleMaps"
    /\ UNCHANGED <<address, clipboard, inquiry, addressLines, hoursVars, orderVars, viewVars>>

\* onClick={openWhatsAppDelivery}
openWhatsAppDelivery ==
    /\ inquiry' = [built |-> TRUE, text |-> deliveryMessage(address)]
    /\ LET url == deliveryUrl(address)
       IN  /\ opened' = IF url.threw THEN opened
                        ELSE [by |-> "openWhatsAppDelivery", url |-> url.value]
           /\ uncaught' = url.threw
    /\ lastHandler' = "openWhatsAppDelivery"
    /\ UNCHANGED <<address, clipboard, addressLines, hoursVars, orderVars, viewVars>>

\* {getFormattedAddressLines().map(...)} in the render
renderAddressLines ==
    /\ addressLines' = getFormattedAddressLines(address)
    /\ lastHandler' = "getFormattedAddressLines"
    /\ uncaught' = FALSE
    /\ UNCHANGED <<address, clipboard, opened, inquiry, hoursVars, orderVars, viewVars>>

---------------------------------------------------------------------------
(* Inputs of the link builder                                              *)

\* longest generated input string
MaxLen == 2

\* 'a', ' ', '/', '?', '#', '%', U+00E3, U+20AC, and the two code units
\* U+D83C U+DF54 of the burger emoji of the page header
SampleUnits == {97, 32, 47, 63, 35, 37, 227, 8364, 55356, 57172}

SampleStrings == UNION {[1..k -> SampleUnits] : k \in 0..MaxLen}

Pizza == <<80, 105, 122, 122, 97>>                      \* "Pizza"
P3990 == <<51, 57, 44, 57, 48>>                         \* "39,90"
\* "Combo Duplo Bacon"
ComboDuploBacon == <<67, 111, 109, 98, 111, 32, 68, 117, 112, 108, 111, 32, 66, 97, 99, 111, 110>>

Products == SampleStrings \cup {Pizza, ComboDuploBacon}

Prices ==
    {Omitted, Given(<<>>), Given(P3990)} \cup {Given(<<c>>) : c \in SampleUnits}

\* the arguments of one call; the schedule evaluator is not involved
InitOrder ==
    /\ product \in Products
    /\ price \in Prices
    /\ pcOrder = "ready"
    /\ message = <<>>
    /\ href = Return(<<>>)
    /\ openingHours = OPENING_HOURS
    /\ now = [day |-> 0, hours |-> 0, minutes |-> 0]
    /\ pcHours = "idle"
    /\ isOpen = FALSE
    /\ todayHours = <<>>
    /\ address = RESTAURANT_ADDRESS
    /\ clipboard = [written |-> FALSE, text |-> <<>>]
    /\ opened = [by |-> "none", url |-> <<>>]
    /\ inquiry = [built |-> FALSE, text |-> <<>>]
    /\ addressLines = <<>>
    /\ lastHandler = "idle"
    /\ uncaught = FALSE
    /\ view = "none"
    /\ pcRefresh = "idle"
    /\ intervals = 0
    /\ tickDue = FALSE
    /\ ticked = FALSE
    /\ dateOpen = NoDate
    /\ dateLabel = NoDate
    /\ scrollListener = FALSE
    /\ scrollY = 0
    /\ showFloatingButton = FALSE
    /\ lastEvent = "none"
    /\ minutes = 0

\* href={createWhatsAppLink(product, price)}
CreateWhatsAppLink ==
    /\ pcOrder = "ready"
    /\ message' = orderMessage(product, price)
    /\ href' = createWhatsAppLink(product, price)
    /\ pcOrder' = "done"
    /\ UNCHANGED <<product, price, hoursVars, addressVars, viewVars>>

---------------------------------------------------------------------------
(* Inputs of the address formatter                                         *)

\* the shipped address, and every sample street in a locality whose fields
\* differ from each other and hold reserved and non-ASCII characters:
\* neighborhood "a/", city U+00E3, state "#", zipcode "?"
Addresses ==
    {RESTAURANT_ADDRESS} \cup
    {[street |-> s, neighborhood |-> <<97, 47>>, city |-> <<227>>,
      state |-> <<35>>, zipcode |-> <<63>>] : s \in SampleStrings}

\* the page is shown with some address; nothing has been clicked yet
InitAddress ==
    /\ address \in Addresses
    /\ clipboard = [written |-> FALSE, text |-> <<>>]
    /\ opened = [by |-> "none", url |-> <<>>]
    /\ inquiry = [built |-> FALSE, text |-> <<>>]
    /\ addressLines = <<>>
    /\ lastHandler = "none"
    /\ uncaught = FALSE
    /\ view = "none"
    /\ pcRefresh = "idle"
    /\ intervals = 0
    /\ tickDue = FALSE
    /\ ticked = FALSE
    /\ dateOpen = NoDate
    /\ dateLabel = NoDate
    /\ scrollListener = FALSE
    /\ scrollY = 0
    /\ showFloatingButton = FALSE
    /\ lastEvent = "none"
    /\ minutes = 0
    /\ openingHours = OPENING_HOURS
    /\ now = [day |-> 0, hours |-> 0, minutes |-> 0]
    /\ pcHours = "idle"
    /\ isOpen = FALSE
    /\ todayHours = <<>>
    /\ product = <<>>
    /\ price = Omitted
    /\ pcOrder = "idle"
    /\ message = <<>>
    /\ href = Return(<<>>)

NextAddress ==
    \/ copyAddressToClipboard
    \/ openGoogleMaps
    \/ openWhatsAppDelivery
    \/ renderAddressLines

SpecAddress == InitAddress /\ [][NextAddress]_vars

---------------------------------------------------------------------------
(* Inputs of the schedule evaluator                                        *)

T0000 == <<48, 48, 58, 48, 48>>     \* "00:00"
T0200 == <<48, 50, 58, 48, 48>>     \* "02:00"
T0830 == <<48, 56, 58, 51, 48>>     \* "08:30"
T0905 == <<48, 57, 58, 48, 53>>     \* "09:05"
T0906 == <<48, 57, 58, 48, 54>>     \* "09:06"
T1200 == <<49, 50, 58, 48, 48>>     \* "12:00"
T1800 == <<49, 56, 58, 48, 48>>     \* "18:00"
T2359 == <<50, 51, 58, 53, 57>>     \* "23:59"

\* the table of the end-to-end scenario: Monday only
MondayOnly == (1 :> [open |-> T1100, close |-> T2330])

\* a table with an absent day, an all-day entry, a one-minute entry, an entry
\* that closes after midnight followed by a day that opens at midnight, and
\* an empty entry (open = close)
VariedHours ==
    (1 :> [open |-> T0000, close |-> T2359]) @@
    (2 :> [open |-> T0905, close |-> T0906]) @@
    (3 :> [open |-> T2300, close |-> T0200]) @@
    (4 :> [open |-> T0000, close |-> T1200]) @@
    (5 :> [open |-> T0830, close |-> T1800]) @@
    (6 :> [open |-> T1200, close |-> T1200])

\* nothing configured: closed all week
NoHours == [d \in {} |-> [open |-> T0000, close |-> T0000]]

Schedules == {OPENING_HOURS, MondayOnly, VariedHours, NoHours}

\* every value of (getDay(), getHours(), getMinutes())
Instants == [day : 0..6, hours : 0..23, minutes : 0..59]

InitHours ==
    /\ openingHours \in Schedules
    /\ now \in Instants
    /\ pcHours = "ready"
    /\ isOpen = FALSE
    /\ todayHours = <<>>
    /\ product = <<>>
    /\ price = Omitted
    /\ pcOrder = "idle"
    /\ message = <<>>
    /\ href = Return(<<>>)
    /\ address = RESTAURANT_ADDRESS
    /\ clipboard = [written |-> FALSE, text |-> <<>>]
    /\ opened = [by |-> "none", url |-> <<>>]
    /\ inquiry = [built |-> FALSE, text |-> <<>>]
    /\ addressLines = <<>>
    /\ lastHandler = "idle"
    /\ uncaught = FALSE
    /\ view = "none"
    /\ pcRefresh = "idle"
    /\ intervals = 0
    /\ tickDue = FALSE
    /\ ticked = FALSE
    /\ dateOpen = NoDate
    /\ dateLabel = NoDate
    /\ scrollListener = FALSE
    /\ scrollY = 0
    /\ showFloatingButton = FALSE
    /\ lastEvent = "none"
    /\ minutes = 0

\* one evaluation of the schedule at the instant `now`
EvaluateIsRestaurantOpen ==
    /\ pcHours \in {"ready", "label"}
    /\ isOpen' = isRestaurantOpen(openingHours, now)
    /\ pcHours' = IF pcHours = "ready" THEN "open" ELSE "done"
    /\ UNCHANGED <<openingHours, now, todayHours, orderVars, addressVars, viewVars>>

EvaluateGetTodayHours ==
    /\ pcHours \in {"ready", "open"}
    /\ todayHours' = getTodayHours(openingHours, now)
    /\ pcHours' = IF pcHours = "ready" THEN "label" ELSE "done"
    /\ UNCHANGED <<openingHours, now, isOpen, orderVars, addressVars, viewVars>>

NextHours == EvaluateIsRestaurantOpen \/ EvaluateGetTodayHours

SpecHours == InitHours /\ [][NextHours]_vars

NextOrder == CreateWhatsAppLink

SpecOrder == InitOrder /\ [][NextOrder]_vars

---------------------------------------------------------------------------
(* The open check on one entry with arbitrary opening and closing times    *)

\* the zero-padded "HH:MM" of an hour and a minute, as a table would hold it
HHMM(h, m) == <<48 + (h \div 10), 48 + (h % 10), 58, 48 + (m \div 10), 48 + (m % 10)>>

\* 00:00, 00:01, 00:59, 01:00, 02:10, 09:59, 10:00, 11:00, 12:34, 19:59,
\* 20:00, 23:59: times around every change of a digit
EntryTimes ==
    {HHMM(t[1], t[2]) :
        t \in {<<0, 0>>, <<0, 1>>, <<0, 59>>, <<1, 0>>, <<2, 10>>, <<9, 59>>,
               <<10, 0>>, <<11, 0>>, <<12, 34>>, <<19, 59>>, <<20, 0>>, <<23, 59>>}}

\* a table whose Monday entry has any two of these times, at any minute of
\* a Monday
InitCompare ==
    /\ \E o \in EntryTimes, c \in EntryTimes :
          openingHours = (1 :> [open |-> o, close |-> c])
    /\ now \in [day : {1}, hours : 0..23, minutes : 0..59]
    /\ pcHours = "ready"
    /\ isOpen = FALSE
    /\ todayHours = <<>>
    /\ product = <<>>
    /\ price = Omitted
    /\ pcOrder = "idle"
    /\ message = <<>>
    /\ href = Return(<<>>)
    /\ address = RESTAURANT_ADDRESS
    /\ clipboard = [written |-> FALSE, text |-> <<>>]
    /\ opened = [by |-> "none", url |-> <<>>]
    /\ inquiry = [built |-> FALSE, text |-> <<>>]
    /\ addressLines = <<>>
    /\ lastHandler = "idle"
    /\ uncaught = FALSE
    /\ view = "none"
    /\ pcRefresh = "idle"
    /\ intervals = 0
    /\ tickDue = FALSE
    /\ ticked = FALSE
    /\ dateOpen = NoDate
    /\ dateLabel = NoDate
    /\ scrollListener = FALSE
    /\ scrollY = 0
    /\ showFloatingButton = FALSE
    /\ lastEvent = "none"
    /\ minutes = 0

NextCompare == EvaluateIsRestaurantOpen

SpecCompare == InitCompare /\ [][NextCompare]_vars

---------------------------------------------------------------------------
(* The core functions together: one call of the link builder and of each   *)
(* schedule evaluator, and the address handlers, on inputs of every kind   *)

\* "Quero fazer um pedido!"
QueroFazerUmPedido ==
    <<81, 117, 101, 114, 111, 32, 102, 97, 122, 101, 114, 32, 117, 109, 32,
      112, 101, 100, 105, 100, 111, 33>>

\* "Hambúrguer Gourmet"
HamburguerGourmet ==
    <<72, 97, 109, 98, 250, 114, 103, 117, 101, 114, 32, 71, 111, 117, 114,
      109, 101, 116>>

P2490 == <<50, 52, 44, 57, 48>>     \* "24,90"

\* items of the page, and items holding reserved characters, an escape
\* look-alike, non-ASCII characters, a surrogate pair and lone surrogates:
\* "", " &#?+", "%20", "a=b&c", U+20AC, U+D83C U+DF54, U+D83C, U+DF54 'a'
LinkItems ==
    {QueroFazerUmPedido, HamburguerGourmet, Pizza, ComboDuploBacon,
     <<>>, <<32, 38, 35, 63, 43>>, <<37, 50, 48>>, <<97, 61, 98, 38, 99>>,
     <<8364>>, <<55356, 57172>>, <<55356>>, <<57172, 97>>}

\* no price, "", "39,90", "24,90", "1 & 2", a lone surrogate
LinkPrices ==
    {Omitted, Given(<<>>), Given(P3990), Given(P2490),
     Given(<<49, 32, 38, 32, 50>>), Given(<<56320>>)}

\* the shipped address, one with reserved characters in every field
\* (street "a&b #1?", neighborhood "a/", city U+00E3, state "#"), and one
\* whose city is a lone surrogate
LinkAddresses ==
    {RESTAURANT_ADDRESS,
     [street |-> <<97, 38, 98, 32, 35, 49, 63>>, neighborhood |-> <<97, 47>>,
      city |-> <<227>>, state |-> <<35>>, zipcode |-> <<63>>],
     [street |-> <<97>>, neighborhood |-> <<98>>, city |-> <<55356>>,
      state |-> <<99>>, zipcode |-> <<100>>]}

\* every weekday at 00:00, 11:00 and 23:59
CoreInstants ==
    {[day |-> d, hours |-> t[1], minutes |-> t[2]] :
        d \in 0..6, t \in {<<0, 0>>, <<11, 0>>, <<23, 59>>}}

\* the inputs of one run: those of the link builder, or an address, or a
\* table and an instant, the others as shipped
InitCore ==
    /\ \/ /\ product \in LinkItems
          /\ price \in LinkPrices
          /\ pcOrder = "ready"
          /\ address = RESTAURANT_ADDRESS
          /\ openingHours = OPENING_HOURS
          /\ now = [day |-> 0, hours |-> 0, minutes |-> 0]
          /\ pcHours = "idle"
       \/ /\ product = <<>>
          /\ price = Omitted
          /\ pcOrder = "idle"
          /\ address \in LinkAddresses
          /\ openingHours = OPENING_HOURS
          /\ now = [day |-> 0, hours |-> 0, minutes |-> 0]
          /\ pcHours = "idle"
       \/ /\ product = <<>>
          /\ price = Omitted
          /\ pcOrder = "idle"
          /\ address = RESTAURANT_ADDRESS
          /\ openingHours \in Schedules
          /\ now \in CoreInstants
          /\ pcHours = "ready"
    /\ message = <<>>
    /\ href = Return(<<>>)
    /\ isOpen = FALSE
    /\ todayHours = <<>>
    /\ clipboard = [written |-> FALSE, text |-> <<>>]
    /\ opened = [by |-> "none", url |-> <<>>]
    /\ inquiry = [built |-> FALSE, text |-> <<>>]
    /\ addressLines = <<>>
    /\ lastHandler = "none"
    /\ uncaught = FALSE
    /\ view = "none"
    /\ pcRefresh = "idle"
    /\ intervals = 0
    /\ tickDue = FALSE
    /\ ticked = FALSE
    /\ dateOpen = NoDate
    /\ dateLabel = NoDate
    /\ scrollListener = FALSE
    /\ scrollY = 0
    /\ showFloatingButton = FALSE
    /\ lastEvent = "none"
    /\ minutes = 0

NextCore ==
    \/ CreateWhatsAppLink
    \/ EvaluateIsRestaurantOpen
    \/ EvaluateGetTodayHours
    \/ copyAddressToClipboard
    \/ openGoogleMaps
    \/ openWhatsAppDelivery
    \/ renderAddressLines

SpecCore == InitCore /\ [][NextCore]_vars

---------------------------------------------------------------------------
(* The Home view: initial render, mount effects, the one-minute interval,  *)
(* the scroll listener and the effect cleanups                             *)

\* minutes the clock advances in one run
MaxMinutes == 2

\* the instant one minute after date
NextMinute(date) ==
    IF date.minutes < 59 THEN [date EXCEPT !.minutes = date.minutes + 1]
    ELSE IF date.hours < 23 THEN [date EXCEPT !.minutes = 0, !.hours = date.hours + 1]
    ELSE [day |-> (date.day + 1) % 7, hours |-> 0, minutes |-> 0]

\* scroll offsets around the threshold of handleScroll
ScrollPositions == {0, 300, 301}

\* every weekday at 10:59, 23:29 and 23:59: one minute before an opening
\* time, a closing time and midnight
ViewStarts ==
    {[day |-> d, hours |-> t[1], minutes |-> t[2]] :
        d \in 0..6, t \in {<<10, 59>>, <<23, 29>>, <<23, 59>>}}

\* the first render: useState(false), useState(false), useState("")
Init ==
    /\ view = "rendered"
    /\ showFloatingButton = FALSE
    /\ isOpen = FALSE
    /\ todayHours = <<>>
    /\ openingHours \in Schedules
    /\ now \in ViewStarts
    /\ scrollY \in ScrollPositions
    /\ pcRefresh = "idle"
    /\ intervals = 0
    /\ tickDue = FALSE
    /\ ticked = FALSE
    /\ dateOpen = NoDate
    /\ dateLabel = NoDate
    /\ scrollListener = FALSE
    /\ lastEvent = "none"
    /\ minutes = 0
    /\ pcHours = "idle"
    /\ product = <<>>
    /\ price = Omitted
    /\ pcOrder = "idle"
    /\ message = <<>>
    /\ href = Return(<<>>)
    /\ address = RESTAURANT_ADDRESS
    /\ clipboard = [written |-> FALSE, text |-> <<>>]
    /\ opened = [by |-> "none", url |-> <<>>]
    /\ inquiry = [built |-> FALSE, text |-> <<>>]
    /\ addressLines = <<>>
    /\ lastHandler = "idle"
    /\ uncaught = FALSE

\* the clock reaches the next minute.  Between the two statements of one
\* refresh at most one minute boundary passes; while a timer is live its
\* callback starts at least once in every minute.
MinutePasses ==
    /\ minutes < MaxMinutes
    /\ pcRefresh # "idle" => now = dateOpen
    /\ ~tickDue
    /\ now' = NextMinute(now)
    /\ minutes' = minutes + 1
    /\ tickDue' = (intervals > 0)
    /\ UNCHANGED <<openingHours, pcHours, isOpen, todayHours, orderVars, addressVars,
                   view, pcRefresh, intervals, ticked, dateOpen, dateLabel,
                   scrollListener, scrollY, showFloatingButton, lastEvent>>

\* first effect, `setIsOpen(isRestaurantOpen())`: the call reads the clock
EffectSetIsOpen ==
    /\ view = "rendered"
    /\ pcRefresh = "idle"
    /\ dateOpen' = now
    /\ isOpen' = isRestaurantOpen(openingHours, now)
    /\ pcRefresh' = "mountLabel"
    /\ UNCHANGED <<openingHours, now, pcHours, todayHours, orderVars, addressVars,
                   view, intervals, tickDue, ticked, dateLabel, scrollListener,
                   scrollY, showFloatingButton, lastEvent, minutes>>

\* variant: the mount effect only starts the timer and leaves the label unset
EffectSetTodayHours_TimerOnly ==
    /\ pcRefresh = "mountLabel"
    /\ dateLabel' = now
    /\ intervals' = intervals + 1
    /\ scrollListener' = TRUE
    /\ view' = "mounted"
    /\ pcRefresh' = "idle"
    /\ lastEvent' = "mount"
    /\ UNCHANGED <<openingHours, now, pcHours, isOpen, todayHours, orderVars,
                   addressVars, tickDue, ticked, dateOpen, scrollY,
                   showFloatingButton, minutes>>

\* rest of the first effect, `setTodayHours(getTodayHours())` with its own
\* clock read and `setInterval(..., 60000)`, then the second effect,
\* `window.addEventListener("scroll", handleScroll)`
EffectSetTodayHours ==
    /\ pcRefresh = "mountLabel"
    /\ dateLabel' = now
    /\ todayHours' = getTodayHours(openingHours, now)
    /\ intervals' = intervals + 1
    /\ scrollListener' = TRUE
    /\ view' = "mounted"
    /\ pcRefresh' = "idle"
    /\ lastEvent' = "mount"
    /\ UNCHANGED <<openingHours, now, pcHours, isOpen, orderVars, addressVars,
                   tickDue, ticked, dateOpen, scrollY, showFloatingButton, minutes>>

\* variant: the callback refreshes the label only
IntervalSetIsOpen_LabelOnly ==
    /\ intervals > 0
    /\ pcRefresh = "idle"
    /\ dateOpen' = now
    /\ pcRefresh' = "tickLabel"
    /\ tickDue' = FALSE
    /\ ticked' = TRUE
    /\ lastEvent' = "tick"
    /\ UNCHANGED <<openingHours, now, pcHours, isOpen, todayHours, orderVars,
                   addressVars, view, intervals, dateLabel, scrollListener, scrollY,
                   showFloatingButton, minutes>>

\* the interval callback starts: `setIsOpen(isRestaurantOpen())`
IntervalSetIsOpen ==
    /\ intervals > 0
    /\ pcRefresh = "idle"
    /\ dateOpen' = now
    /\ isOpen' = isRestaurantOpen(openingHours, now)
    /\ pcRefresh' = "tickLabel"
    /\ tickDue' = FALSE
    /\ ticked' = TRUE
    /\ lastEvent' = "tick"
    /\ UNCHANGED <<openingHours, now, pcHours, todayHours, orderVars, addressVars,
                   view, intervals, dateLabel, scrollListener, scrollY,
                   showFloatingButton, minutes>>

\* the interval callback ends: `setTodayHours(getTodayHours())`
IntervalSetTodayHours ==
    /\ pcRefresh = "tickLabel"
    /\ dateLabel' = now
    /\ todayHours' = getTodayHours(openingHours, now)
    /\ pcRefresh' = "idle"
    /\ UNCHANGED <<openingHours, now, pcHours, isOpen, orderVars, addressVars,
                   view, intervals, tickDue, ticked, dateOpen, scrollListener,
                   scrollY, showFloatingButton, lastEvent, minutes>>

\* variant: `window.scrollY >= 300`
floatingButtonVisible_Inclusive(offset) == offset >= 300

\* the argument of setShowFloatingButton: `window.scrollY > 300`
floatingButtonVisible(offset) == offset > 300

\* the window is scrolled; handleScroll runs if it is registered
Scroll ==
    /\ pcRefresh = "idle"
    /\ \E offset \in ScrollPositions :
          /\ scrollY' = offset
          /\ IF scrollListener
             THEN /\ showFloatingButton' = floatingButtonVisible(offset)
                  /\ lastEvent' = "scroll"
             ELSE UNCHANGED <<showFloatingButton, lastEvent>>
    /\ UNCHANGED <<hoursVars, orderVars, addressVars, view, pcRefresh, intervals,
                   tickDue, ticked, dateOpen, dateLabel, scrollListener, minutes>>

\* variant: cleanups that leave the interval running
Unmount_NoClearInterval ==
    /\ view = "mounted"
    /\ pcRefresh = "idle"
    /\ scrollListener' = FALSE
    /\ view' = "unmounted"
    /\ lastEvent' = "unmount"
    /\ UNCHANGED <<hoursVars, orderVars, addressVars, pcRefresh, intervals, tickDue,
                   ticked, dateOpen, dateLabel, scrollY, showFloatingButton, minutes>>

\* the view is torn down: both cleanups run, `clearInterval(interval)` and
\* `window.removeEventListener("scroll", handleScroll)`
Unmount ==
    /\ view = "mounted"
    /\ pcRefresh = "idle"
    /\ intervals' = intervals - 1
    /\ tickDue' = FALSE
    /\ scrollListener' = FALSE
    /\ view' = "unmounted"
    /\ lastEvent' = "unmount"
    /\ UNCHANGED <<hoursVars, orderVars, addressVars, pcRefresh, ticked, dateOpen,
                   dateLabel, scrollY, showFloatingButton, minutes>>

Next ==
    \/ MinutePasses
    \/ EffectSetIsOpen
    \/ EffectSetTodayHours
    \/ IntervalSetIsOpen
    \/ IntervalSetTodayHours
    \/ Scroll
    \/ Unmount

Spec == Init /\ [][Next]_vars

\* the browser runs a live timer's callback, and a started callback ends
FairSpec ==
    Spec /\ WF_vars(IntervalSetIsOpen) /\ WF_vars(IntervalSetTodayHours)

---------------------------------------------------------------------------
(* Properties of the schedule evaluator (checked under SpecHours)          *)

OpenEvaluated == pcHours \in {"open", "done"}
LabelEvaluated == pcHours \in {"label", "done"}

\* minutes since midnight of the instant, from the Date's numeric fields
MinuteOfDay(date) == 60 * date.hours + date.minutes

\* minutes since midnight written by a zero-padded "HH:MM" string
MinutesOf(s) == 600 * (s[1] - 48) + 60 * (s[2] - 48) + 10 * (s[4] - 48) + (s[5] - 48)

HasEntry == now.day \in DOMAIN openingHours
Entry == openingHours[now.day]

\* C1: on a weekday whose entry has open < close, the open check returns
\* true exactly for the times t of that day with open <= t < close (t = open
\* is open, t = close is closed); Monday 11:00-23:30 gives 23:29 open,
\* 23:30 closed and 10:59 closed.
C1_OpenExactlyWithinHours ==
    /\ (OpenEvaluated /\ HasEntry /\ StrLT(Entry.open, Entry.close))
          => (isOpen <=> (MinutesOf(Entry.open) <= MinuteOfDay(now)
                          /\ MinuteOfDay(now) < MinutesOf(Entry.close)))
    /\ (OpenEvaluated /\ openingHours = MondayOnly /\ now.day = 1)
          => /\ (now.hours = 23 /\ now.minutes = 29) => isOpen = TRUE
             /\ (now.hours = 23 /\ now.minutes = 30) => isOpen = FALSE
             /\ (now.hours = 10 /\ now.minutes = 59) => isOpen = FALSE
             /\ (now.hours = 11 /\ now.minutes = 0) => isOpen = TRUE

C1_Witness ==
    /\ OpenEvaluated
    /\ openingHours = MondayOnly
    /\ now = [day |-> 1, hours |-> 23, minutes |-> 29]
    /\ isOpen = TRUE

\* C2: on a weekday with no entry in the table the open check returns
\* closed (false) at every time of day; the evaluation completes with that
\* value.
C2_AbsentDayClosed ==
    (OpenEvaluated /\ ~HasEntry) => isOpen = FALSE

C2_Witness ==
    /\ OpenEvaluated
    /\ openingHours = VariedHours
    /\ now = [day |-> 0, hours |-> 12, minutes |-> 0]
    /\ isOpen = FALSE

\* the weekday before the instant's weekday
Yesterday == (now.day + 6) % 7

\* the instant lies in the post-midnight window of yesterday's entry
InPostMidnightWindow ==
    /\ Yesterday \in DOMAIN openingHours
    /\ StrLT(openingHours[Yesterday].close, openingHours[Yesterday].open)
    /\ MinuteOfDay(now) < MinutesOf(openingHours[Yesterday].close)

\* C3 as stated: for an entry whose close is lexicographically below its
\* open, the open check is closed throughout the post-midnight window (the
\* following day, before that close); with the shipped table it is closed
\* all Friday, all Saturday, and 00:00-00:29 of Saturday and Sunday.
C3_Original ==
    /\ (OpenEvaluated /\ InPostMidnightWindow) => isOpen = FALSE
    /\ (OpenEvaluated /\ openingHours = OPENING_HOURS)
          => /\ now.day \in {5, 6} => isOpen = FALSE
             /\ (now.day \in {6, 0} /\ MinuteOfDay(now) < 30) => isOpen = FALSE

\* C3 (amended): an entry whose close is lexicographically below its open
\* never yields open: the check is closed at every time of that weekday,
\* and in the post-midnight window of the following day it is open only
\* when that day's own entry covers the time.  With the shipped table the
\* check is closed all Friday, all Saturday, and 00:00-00:29 of Saturday
\* and Sunday.
C3_AfterMidnightCloseUnreachable ==
    /\ (OpenEvaluated /\ HasEntry /\ StrLT(Entry.close, Entry.open))
          => isOpen = FALSE
    /\ (OpenEvaluated /\ InPostMidnightWindow /\ isOpen)
          => /\ HasEntry
             /\ MinutesOf(Entry.open) <= MinuteOfDay(now)
             /\ MinuteOfDay(now) < MinutesOf(Entry.close)
    /\ (OpenEvaluated /\ openingHours = OPENING_HOURS)
          => /\ now.day \in {5, 6} => isOpen = FALSE
             /\ (now.day \in {6, 0} /\ MinuteOfDay(now) < 30) => isOpen = FALSE

C3_Witness ==
    /\ OpenEvaluated
    /\ openingHours = OPENING_HOURS
    /\ now = [day |-> 6, hours |-> 0, minutes |-> 15]
    /\ InPostMidnightWindow
    /\ isOpen = FALSE

\* "11:00 - 23:30"
Label_1100_2330 == <<49, 49, 58, 48, 48, 32, 45, 32, 50, 51, 58, 51, 48>>

\* C4: the today's-hours label is the entry's open, then " - ", then the
\* entry's close, verbatim, when the instant's weekday has an entry, and
\* the sentinel "Fechado" when it has none; nothing else is ever returned.
C4_TodayHoursLabel ==
    /\ (LabelEvaluated /\ HasEntry)
          => /\ Len(todayHours) = Len(Entry.open) + 3 + Len(Entry.close)
             /\ SubSeq(todayHours, 1, Len(Entry.open)) = Entry.open
             /\ SubSeq(todayHours, Len(Entry.open) + 1, Len(Entry.open) + 3)
                   = <<32, 45, 32>>
             /\ SubSeq(todayHours, Len(Entry.open) + 4, Len(todayHours))
                   = Entry.close
    /\ (LabelEvaluated /\ ~HasEntry)
          => todayHours = <<70, 101, 99, 104, 97, 100, 111>>
    /\ (LabelEvaluated /\ openingHours = OPENING_HOURS /\ now.day = 1)
          => todayHours = Label_1100_2330

C4_Witness ==
    /\ LabelEvaluated
    /\ openingHours = OPENING_HOURS
    /\ now = [day |-> 1, hours |-> 3, minutes |-> 0]
    /\ todayHours = Label_1100_2330

---------------------------------------------------------------------------
(* Properties of the link builder (checked under SpecOrder)                *)

\* "https://wa.me/5511999999999?text=Quero%20pedir%3A%20Pizza%20(R%24%2039%2C90)"
PizzaOrderUrl ==
    <<104, 116, 116, 112, 115, 58, 47, 47, 119, 97, 46, 109, 101, 47,
      53, 53, 49, 49, 57, 57, 57, 57, 57, 57, 57, 57, 57,
      63, 116, 101, 120, 116, 61,
      81, 117, 101, 114, 111, 37, 50, 48, 112, 101, 100, 105, 114, 37, 51, 65,
      37, 50, 48, 80, 105, 122, 122, 97, 37, 50, 48, 40, 82, 37, 50, 52,
      37, 50, 48, 51, 57, 37, 50, 67, 57, 48, 41>>

\* "Quero pedir: Pizza (R$ 39,90)"
PizzaOrderBody ==
    <<81, 117, 101, 114, 111, 32, 112, 101, 100, 105, 114, 58, 32,
      80, 105, 122, 122, 97, 32, 40, 82, 36, 32, 51, 57, 44, 57, 48, 41>>

\* C5: the order link for "Pizza" at "39,90" is exactly
\* https://wa.me/5511999999999?text=Quero%20pedir%3A%20Pizza%20(R%24%2039%2C90),
\* the encoding of the body "Quero pedir: Pizza (R$ 39,90)": space, ':',
\* '$' and ',' are percent-encoded, the parentheses are literal.
C5_PizzaOrderLink ==
    (pcOrder = "done" /\ product = Pizza /\ price = Given(P3990))
        => /\ message = PizzaOrderBody
           /\ href = Return(PizzaOrderUrl)

C5_Witness ==
    /\ pcOrder = "done"
    /\ product = Pizza
    /\ price = Given(P3990)
    /\ href.value = PizzaOrderUrl

\* the body with the price in parentheses
BodyWithPrice == QueroPedir \o product \o <<32, 40, 82, 36, 32>> \o price.str \o <<41>>

\* the body without a parenthetical
BodyWithoutPrice == QueroPedir \o product

\* C6 as stated: whenever a second argument is passed, the empty string
\* included, the body is "Quero pedir: {item} (R$ {price})"; when none is
\* passed the body is "Quero pedir: {item}".
C6_Original ==
    pcOrder = "done"
        => message = (IF price.given THEN BodyWithPrice ELSE BodyWithoutPrice)

\* C6 (amended): when a non-empty price label is passed the body is
\* "Quero pedir: {item} (R$ {price})"; when the price label is omitted or
\* is the empty string the body is exactly "Quero pedir: {item}".
C6_BodyByPrice ==
    pcOrder = "done"
        => message = (IF price.given /\ Len(price.str) > 0
                      THEN BodyWithPrice ELSE BodyWithoutPrice)

C6_Witness ==
    /\ pcOrder = "done"
    /\ product = Pizza
    /\ price = Given(<<>>)
    /\ message = QueroPedir \o Pizza

---------------------------------------------------------------------------
(* Percent-decoding, as a reader of the generated URLs performs it         *)

HexValue(c) ==
    IF c \in 48..57 THEN c - 48
    ELSE IF c \in 65..70 THEN c - 55
    ELSE IF c \in 97..102 THEN c - 87
    ELSE -1

\* a "%XY" escape starts at position k
EscapeAt(s, k) ==
    /\ s[k] = 37
    /\ k + 2 <= Len(s)
    /\ HexValue(s[k + 1]) >= 0
    /\ HexValue(s[k + 2]) >= 0

\* the octets a percent-encoded string stands for
OctetAt(s, k) ==
    IF EscapeAt(s, k) THEN <<16 * HexValue(s[k + 1]) + HexValue(s[k + 2])>>
    ELSE IF (k > 1 /\ EscapeAt(s, k - 1)) \/ (k > 2 /\ EscapeAt(s, k - 2)) THEN <<>>
    ELSE <<s[k]>>

OctetsOf(s) == Join([k \in 1..Len(s) |-> OctetAt(s, k)], 1, Len(s))

IsContinuation(bs, k) == k <= Len(bs) /\ bs[k] \in 128..191

\* the UTF-16 code units of the UTF-8 sequence that starts at octet k
DecodedAt(bs, k) ==
    IF bs[k] < 128 THEN <<bs[k]>>
    ELSE IF bs[k] \in 128..191 THEN <<>>
    ELSE IF bs[k] \in 192..223 /\ IsContinuation(bs, k + 1)
         THEN <<(bs[k] - 192) * 64 + (bs[k + 1] - 128)>>
    ELSE IF bs[k] \in 224..239 /\ IsContinuation(bs, k + 1) /\ IsContinuation(bs, k + 2)
         THEN <<(bs[k] - 224) * 4096 + (bs[k + 1] - 128) * 64 + (bs[k + 2] - 128)>>
    ELSE IF /\ bs[k] \in 240..247
            /\ IsContinuation(bs, k + 1)
            /\ IsContinuation(bs, k + 2)
            /\ IsContinuation(bs, k + 3)
         THEN LET v == (bs[k] - 240) * 262144 + (bs[k + 1] - 128) * 4096
                          + (bs[k + 2] - 128) * 64 + (bs[k + 3] - 128) - 65536
              IN  <<55296 + (v \div 1024), 56320 + (v % 1024)>>
    ELSE <<bs[k]>>

UTF8Decode(bs) == Join([k \in 1..Len(bs) |-> DecodedAt(bs, k)], 1, Len(bs))

PercentDecode(s) == UTF8Decode(OctetsOf(s))

\* s without its first n units
DropFirst(s, n) == SubSeq(s, n + 1, Len(s))

\* s is a percent-encoded component: unreserved characters and escapes only
IsPercentEncoded(s) == \A k \in 1..Len(s) : s[k] \in uriUnreserved \cup {37}

\* s holds a surrogate code unit without its partner
HasUnpairedSurrogate(s) ==
    \E k \in 1..Len(s) :
        \/ s[k] \in 55296..56319 /\ ~(k < Len(s) /\ s[k + 1] \in 56320..57343)
        \/ s[k] \in 56320..57343 /\ ~(k > 1 /\ s[k - 1] \in 55296..56319)

---------------------------------------------------------------------------
(* Properties of the address formatter (checked under SpecAddress)         *)

\* "https://wa.me/5511999999999?text="
WaMeTarget ==
    <<104, 116, 116, 112, 115, 58, 47, 47, 119, 97, 46, 109, 101, 47, 53, 53,
      49, 49, 57, 57, 57, 57, 57, 57, 57, 57, 57, 63, 116, 101, 120, 116, 61>>

\* "Quero%20pedir%3A%20"
EncodedQueroPedir ==
    <<81, 117, 101, 114, 111, 37, 50, 48, 112, 101, 100, 105, 114, 37, 51, 65,
      37, 50, 48>>

\* "Ol%C3%A1!%20Voc%C3%AAs%20fazem%20entrega%20no%20meu%20endere%C3%A7o%3F%20"
EncodedOla ==
    <<79, 108, 37, 67, 51, 37, 65, 49, 33, 37, 50, 48, 86, 111, 99, 37, 67,
      51, 37, 65, 65, 115, 37, 50, 48, 102, 97, 122, 101, 109, 37, 50, 48,
      101, 110, 116, 114, 101, 103, 97, 37, 50, 48, 110, 111, 37, 50, 48, 109,
      101, 117, 37, 50, 48, 101, 110, 100, 101, 114, 101, 37, 67, 51, 37, 65,
      55, 111, 37, 51, 70, 37, 50, 48>>

\* "https://wa.me/5511999999999?text=Ol%C3%A1!%20Voc%C3%AAs%20fazem%20entrega%20no%20meu%20endere%C3%A7o%3F%20Rua%20das%20Flores%2C%20123%2C%20Centro%2C%20S%C3%A3o%20Paulo%20-%20SP"
ShippedInquiryUrl ==
    <<104, 116, 116, 112, 115, 58, 47, 47, 119, 97, 46, 109, 101, 47, 53, 53,
      49, 49, 57, 57, 57, 57, 57, 57, 57, 57, 57, 63, 116, 101, 120, 116, 61,
      79, 108, 37, 67, 51, 37, 65, 49, 33, 37, 50, 48, 86, 111, 99, 37, 67,
      51, 37, 65, 65, 115, 37, 50, 48, 102, 97, 122, 101, 109, 37, 50, 48,
      101, 110, 116, 114, 101, 103, 97, 37, 50, 48, 110, 111, 37, 50, 48, 109,
      101, 117, 37, 50, 48, 101, 110, 100, 101, 114, 101, 37, 67, 51, 37, 65,
      55, 111, 37, 51, 70, 37, 50, 48, 82, 117, 97, 37, 50, 48, 100, 97, 115,
      37, 50, 48, 70, 108, 111, 114, 101, 115, 37, 50, 67, 37, 50, 48, 49, 50,
      51, 37, 50, 67, 37, 50, 48, 67, 101, 110, 116, 114, 111, 37, 50, 67, 37,
      50, 48, 83, 37, 67, 51, 37, 65, 51, 111, 37, 50, 48, 80, 97, 117, 108,
      111, 37, 50, 48, 45, 37, 50, 48, 83, 80>>

\* "https://www.google.com/maps/search/Rua%20das%20Flores%2C%20123%2C%20Centro%2C%20S%C3%A3o%20Paulo%20-%20SP"
ShippedMapsUrl ==
    <<104, 116, 116, 112, 115, 58, 47, 47, 119, 119, 119, 46, 103, 111, 111,
      103, 108, 101, 46, 99, 111, 109, 47, 109, 97, 112, 115, 47, 115, 101,
      97, 114, 99, 104, 47, 82, 117, 97, 37, 50, 48, 100, 97, 115, 37, 50, 48,
      70, 108, 111, 114, 101, 115, 37, 50, 67, 37, 50, 48, 49, 50, 51, 37, 50,
      67, 37, 50, 48, 67, 101, 110, 116, 114, 111, 37, 50, 67, 37, 50, 48, 83,
      37, 67, 51, 37, 65, 51, 111, 37, 50, 48, 80, 97, 117, 108, 111, 37, 50,
      48, 45, 37, 50, 48, 83, 80>>

\* "Rua das Flores, 123, Centro, São Paulo - SP"
ShippedFullAddress ==
    <<82, 117, 97, 32, 100, 97, 115, 32, 70, 108, 111, 114, 101, 115, 44, 32,
      49, 50, 51, 44, 32, 67, 101, 110, 116, 114, 111, 44, 32, 83, 227, 111,
      32, 80, 97, 117, 108, 111, 32, 45, 32, 83, 80>>

\* "Centro, São Paulo - SP"
ShippedSecondLine ==
    <<67, 101, 110, 116, 114, 111, 44, 32, 83, 227, 111, 32, 80, 97, 117, 108,
      111, 32, 45, 32, 83, 80>>

\* "Olá! Vocês fazem entrega no meu endereço? "
OlaLiteral ==
    <<79, 108, 225, 33, 32, 86, 111, 99, 234, 115, 32, 102, 97, 122, 101, 109,
      32, 101, 110, 116, 114, 101, 103, 97, 32, 110, 111, 32, 109, 101, 117,
      32, 101, 110, 100, 101, 114, 101, 231, 111, 63, 32>>

\* "{street}, {neighborhood}, {city} - {state}" of the address in force
SingleLine ==
    address.street \o <<44, 32>> \o address.neighborhood \o <<44, 32>>
        \o address.city \o <<32, 45, 32>> \o address.state

\* the text parameter of the opened WhatsApp URL
InquiryText == DropFirst(opened.url, Len(WaMeTarget))

\* C7: the delivery inquiry opens "https://wa.me/5511999999999?text="
\* followed by the percent-encoding of "Olá! Vocês fazem entrega no meu
\* endereço? " and the single-line address; target and encoding are those
\* of the order link for the same text.
C7_InquiryLink ==
    /\ opened.by = "openWhatsAppDelivery"
          => /\ SubSeq(opened.url, 1, Len(WaMeTarget)) = WaMeTarget
             /\ IsPercentEncoded(InquiryText)
             /\ PercentDecode(InquiryText) = OlaLiteral \o SingleLine
             /\ LET order == createWhatsAppLink(SingleLine, Omitted)
                IN  /\ ~order.threw
                    /\ SubSeq(order.value, 1, Len(WaMeTarget)) = WaMeTarget
                    /\ DropFirst(order.value, Len(WaMeTarget) + Len(EncodedQueroPedir))
                          = DropFirst(opened.url, Len(WaMeTarget) + Len(EncodedOla))
    /\ (lastHandler = "openWhatsAppDelivery" /\ address = RESTAURANT_ADDRESS)
          => opened = [by |-> "openWhatsAppDelivery", url |-> ShippedInquiryUrl]

C7_Witness ==
    /\ lastHandler = "openWhatsAppDelivery"
    /\ address = RESTAURANT_ADDRESS
    /\ opened.url = ShippedInquiryUrl

\* the path segment after "/search/" of the opened maps URL
MapsSegment == DropFirst(opened.url, Len(MapsSearch))

\* the opened maps URL is the search prefix and the encoded single line
MapsUrlRoundTrips ==
    /\ opened.by = "openGoogleMaps"
    /\ SubSeq(opened.url, 1, Len(MapsSearch)) = MapsSearch
    /\ IsPercentEncoded(MapsSegment)
    /\ \A k \in 1..Len(MapsSegment) : MapsSegment[k] \notin {47, 63, 35, 32}
    /\ PercentDecode(MapsSegment) = SingleLine

\* C8 as stated: for every address the maps URL is built, is the search
\* prefix followed by the percent-encoded single line without raw '/', '?',
\* '#' or space, and decodes back to the single line.
C8_Original ==
    lastHandler = "openGoogleMaps" => (~uncaught /\ MapsUrlRoundTrips)

\* C8 (amended): for every address whose single line holds no unpaired
\* surrogate code unit the maps URL is built, is the search prefix followed
\* by the percent-encoded single line without raw '/', '?', '#' or space,
\* and decodes back to the single line.
C8_MapsUrlRoundTrip ==
    /\ (lastHandler = "openGoogleMaps" /\ ~HasUnpairedSurrogate(SingleLine))
          => (~uncaught /\ MapsUrlRoundTrips)
    /\ (lastHandler = "openGoogleMaps" /\ address = RESTAURANT_ADDRESS)
          => opened.url = ShippedMapsUrl

C8_Witness ==
    /\ lastHandler = "openGoogleMaps"
    /\ address.street = <<47, 37>>
    /\ ~uncaught
    /\ PercentDecode(MapsSegment) = SingleLine

\* C9: the display lines are exactly three, in this order: the street,
\* "{neighborhood}, {city} - {state}", the zipcode.
C9_DisplayLines ==
    lastHandler = "getFormattedAddressLines"
        => /\ Len(addressLines) = 3
           /\ addressLines[1] = address.street
           /\ addressLines[2] = address.neighborhood \o <<44, 32>> \o address.city
                                    \o <<32, 45, 32>> \o address.state
           /\ addressLines[3] = address.zipcode
           /\ address = RESTAURANT_ADDRESS => addressLines[2] = ShippedSecondLine

C9_Witness ==
    /\ lastHandler = "getFormattedAddressLines"
    /\ address = RESTAURANT_ADDRESS
    /\ addressLines[2] = ShippedSecondLine

\* C10: the single-line address is "{street}, {neighborhood}, {city} -
\* {state}" without the zipcode, and that same string is what is written to
\* the clipboard, what follows the greeting in the inquiry message, and
\* what the maps URL encodes.
C10_SingleLineEverywhere ==
    /\ clipboard.written
          => /\ clipboard.text = SingleLine
             /\ address = RESTAURANT_ADDRESS => clipboard.text = ShippedFullAddress
    /\ inquiry.built => inquiry.text = OlaLiteral \o SingleLine
    /\ opened.by = "openGoogleMaps" => PercentDecode(MapsSegment) = SingleLine
    /\ (clipboard.written /\ inquiry.built)
          => DropFirst(inquiry.text, Len(OlaLiteral)) = clipboard.text
    /\ (clipboard.written /\ opened.by = "openGoogleMaps")
          => PercentDecode(MapsSegment) = clipboard.text

C10_Witness ==
    /\ address = RESTAURANT_ADDRESS
    /\ clipboard.written
    /\ inquiry.built
    /\ opened.by = "openGoogleMaps"
    /\ clipboard.text = ShippedFullAddress

---------------------------------------------------------------------------
(* Properties of every generated deep link (checked under SpecCore)        *)

\* "https://wa.me/"
HttpsWaMe == <<104, 116, 116, 112, 115, 58, 47, 47, 119, 97, 46, 109, 101, 47>>

\* "5511999999999"
ConfiguredTarget == <<53, 53, 49, 49, 57, 57, 57, 57, 57, 57, 57, 57, 57>>

\* position of the first '?' of a URL, 0 when it has none
FirstQuestionMark(url) ==
    IF \E k \in 1..Len(url) : url[k] = 63
    THEN CHOOSE k \in 1..Len(url) : url[k] = 63 /\ \A j \in 1..(k - 1) : url[j] # 63
    ELSE 0

\* url is "https://wa.me/<target>?text=<encoded>" with the configured
\* digits-only target, an <encoded> free of raw space, '&', '#', '?' and
\* non-ASCII units, and <encoded> percent-decodes as UTF-8 to body
IsDeepLinkFor(url, body) ==
    LET q == FirstQuestionMark(url)
        target == SubSeq(url, Len(HttpsWaMe) + 1, q - 1)
        encoded == DropFirst(url, q + 5)
    IN  /\ q > Len(HttpsWaMe) + 1
        /\ SubSeq(url, 1, Len(HttpsWaMe)) = HttpsWaMe
        /\ target = ConfiguredTarget
        /\ \A k \in 1..Len(target) : target[k] \in 48..57
        /\ SubSeq(url, q, q + 5) = <<63, 116, 101, 120, 116, 61>>
        /\ \A k \in 1..Len(encoded) :
              encoded[k] < 128 /\ encoded[k] \notin {32, 38, 35, 63}
        /\ PercentDecode(encoded) = body

\* C11: every deep link the page generates, order link or inquiry link, is
\* "https://wa.me/<target>?text=<encoded>": <target> is the configured
\* digits-only identifier, <encoded> holds no raw space, '&', '#', '?' or
\* non-ASCII character, and percent-decoding <encoded> as UTF-8 gives back
\* the composed message body.
C11_DeepLinkShape ==
    /\ (pcOrder = "done" /\ ~href.threw) => IsDeepLinkFor(href.value, message)
    /\ opened.by = "openWhatsAppDelivery" => IsDeepLinkFor(opened.url, inquiry.text)

C11_Witness ==
    /\ pcOrder = "done"
    /\ product = <<32, 38, 35, 63, 43>>
    /\ price = Given(<<49, 32, 38, 32, 50>>)
    /\ ~href.threw
    /\ opened.by = "openWhatsAppDelivery"
    /\ PercentDecode(DropFirst(href.value, 33)) = message

---------------------------------------------------------------------------
(* Properties of the Home view (checked under Spec and FairSpec)           *)

\* no effect or callback is in the middle of a refresh
BetweenCallbacks == pcRefresh = "idle"

\* the displayed status and label are those of the clock's current minute
DisplayIsCurrent ==
    /\ isOpen = isRestaurantOpen(openingHours, now)
    /\ todayHours = getTodayHours(openingHours, now)

\* C12: while the view is mounted the interval re-evaluates the open check
\* and the label once per minute: whenever the displayed isOpen or
\* todayHours differ from the values of the current time they eventually
\* equal them (or the view is torn down), and once the callback has run
\* with no elapsed period pending the display is the current one.
C12_DisplayEventuallyCurrent ==
    /\ [](( /\ view = "mounted"
            /\ BetweenCallbacks
            /\ ticked
            /\ ~tickDue ) => DisplayIsCurrent)
    /\ ((view = "mounted" /\ ~DisplayIsCurrent)
            ~> (view # "mounted" \/ (BetweenCallbacks /\ DisplayIsCurrent)))

C12_Witness ==
    /\ view = "mounted"
    /\ BetweenCallbacks
    /\ lastEvent = "tick"
    /\ openingHours = OPENING_HOURS
    /\ now = [day |-> 1, hours |-> 11, minutes |-> 0]
    /\ minutes = 1
    /\ dateLabel = now
    /\ isOpen = TRUE

\* C13: tearing the view down cancels the refresh timer: afterwards no
\* timer is live or pending, no step runs the refresh callback or writes
\* isOpen or todayHours, and at no time does the view own more than one
\* timer (none before the mount effect, exactly one while mounted).
C13_TimerCancelledOnTeardown ==
    /\ [](/\ intervals \in {0, 1}
          /\ view = "rendered" => intervals = 0
          /\ view = "mounted" => intervals = 1
          /\ view = "unmounted" => (intervals = 0 /\ ~tickDue))
    /\ [][view = "unmounted"
            => /\ isOpen' = isOpen
               /\ todayHours' = todayHours
               /\ pcRefresh' = "idle"
               /\ lastEvent' = "unmount"
               /\ dateOpen' = dateOpen
               /\ dateLabel' = dateLabel]_vars

C13_Witness ==
    /\ view = "unmounted"
    /\ ticked
    /\ intervals = 0
    /\ minutes > 0
    /\ now # dateLabel
    /\ now # dateOpen

\* C17: after every scroll event handled while the view is mounted,
\* showFloatingButton is true exactly when scrollY > 300 (hidden at 300);
\* the listener is removed on teardown, after which no step changes
\* showFloatingButton; and a scroll never changes isOpen or todayHours.
C17_FloatingButtonFollowsScroll ==
    /\ [](/\ lastEvent = "scroll" => (showFloatingButton <=> scrollY > 300)
          /\ view = "unmounted" => ~scrollListener)
    /\ [][/\ view = "unmounted" => showFloatingButton' = showFloatingButton
          /\ (scrollY' # scrollY \/ showFloatingButton' # showFloatingButton)
                => (isOpen' = isOpen /\ todayHours' = todayHours)]_vars

C17_Witness ==
    /\ view = "mounted"
    /\ lastEvent = "scroll"
    /\ scrollY = 300
    /\ ~showFloatingButton
    /\ ticked

\* C18: after every refresh (the mount-time one and each timer tick) the
\* displayed isOpen and the displayed todayHours come from the same
\* weekday's entry: in no state between callbacks was isOpen computed for
\* weekday d and todayHours for weekday d+1, also when the refresh
\* straddles midnight.
C18_SameWeekdayAfterRefresh ==
    (view = "mounted" /\ BetweenCallbacks) => dateOpen.day = dateLabel.day

\* the "{open} - {close}" labels of the table in force
TableLabels ==
    {openingHours[d].open \o <<32, 45, 32>> \o openingHours[d].close :
        d \in DOMAIN openingHours}

\* C19: the view starts closed with an empty label; the mount effect
\* replaces both with the values evaluated at mount time before any timer
\* tick runs; from then on the label of the mounted view is "Fechado" or
\* an "{open} - {close}" label of the table, and between callbacks a
\* displayed "Fechado" comes with a displayed isOpen of false.
C19_InitialAndMountedDisplay ==
    /\ (view = "rendered" /\ BetweenCallbacks)
          => (isOpen = FALSE /\ todayHours = <<>>)
    /\ view = "rendered" => (~ticked /\ intervals = 0)
    /\ (view = "mounted" /\ ~ticked)
          => /\ isOpen = isRestaurantOpen(openingHours, dateOpen)
             /\ todayHours = getTodayHours(openingHours, dateLabel)
             /\ dateOpen # NoDate
             /\ dateLabel \in {dateOpen, NextMinute(dateOpen)}
    /\ view = "mounted"
          => todayHours \in {<<70, 101, 99, 104, 97, 100, 111>>} \cup TableLabels
    /\ (view = "mounted" /\ BetweenCallbacks
            /\ todayHours = <<70, 101, 99, 104, 97, 100, 111>>)
          => isOpen = FALSE

C19_Witness ==
    /\ view = "mounted"
    /\ BetweenCallbacks
    /\ ~ticked
    /\ openingHours = MondayOnly
    /\ dateOpen = [day |-> 0, hours |-> 23, minutes |-> 59]
    /\ dateLabel = dateOpen
    /\ todayHours = <<70, 101, 99, 104, 97, 100, 111>>
    /\ isOpen = FALSE

---------------------------------------------------------------------------
(* Totality of the core functions (checked under SpecCore)                 *)

\* every call made so far has returned a value
AllCallsReturned ==
    /\ pcOrder = "done" => ~href.threw
    /\ lastHandler \in {"copyAddressToClipboard", "openGoogleMaps",
                        "openWhatsAppDelivery", "getFormattedAddressLines"}
          => ~uncaught

\* the schedule evaluator and the address formatter have returned values
\* of their result types
EvaluatorAndFormatterReturned ==
    /\ OpenEvaluated => isOpen \in BOOLEAN
    /\ LabelEvaluated => Len(todayHours) >= 7
    /\ lastHandler = "copyAddressToClipboard" => (~uncaught /\ clipboard.written)
    /\ lastHandler = "getFormattedAddressLines" => (~uncaught /\ Len(addressLines) = 3)

\* C15 as stated: every core function returns a value for every weekday,
\* time of day, item, price and address string, and never raises an error.
C15_Original == AllCallsReturned /\ EvaluatorAndFormatterReturned

\* C15 (amended): the open check, the hours label, the display lines and
\* the single line return a value for every input; the order link, the
\* inquiry link and the map search URL return a value exactly when the
\* text they encode holds no unpaired surrogate code unit, and raise
\* URIError when it does.
C15_TotalOnWellFormedText ==
    /\ EvaluatorAndFormatterReturned
    /\ pcOrder = "done"
          => /\ href.threw <=> HasUnpairedSurrogate(message)
             /\ ~href.threw => Len(href.value) >= Len(WaMeTarget) + Len(EncodedQueroPedir)
    /\ lastHandler = "openGoogleMaps"
          => /\ uncaught <=> HasUnpairedSurrogate(SingleLine)
             /\ ~uncaught => opened.by = "openGoogleMaps"
    /\ lastHandler = "openWhatsAppDelivery"
          => /\ uncaught <=> HasUnpairedSurrogate(SingleLine)
             /\ ~uncaught => opened.by = "openWhatsAppDelivery"

C15_Witness ==
    /\ pcOrder = "done"
    /\ product = <<55356, 57172>>
    /\ price = Given(<<49, 32, 38, 32, 50>>)
    /\ ~href.threw
    /\ Len(href.value) > Len(WaMeTarget) + Len(EncodedQueroPedir)
    /\ lastHandler = "openGoogleMaps"
    /\ ~uncaught

---------------------------------------------------------------------------
(* String comparison against minute arithmetic (checked under SpecCompare) *)

\* s is two digits, ':', two digits
IsZeroPadded(s) ==
    /\ Len(s) = 5
    /\ s[3] = 58
    /\ \A k \in {1, 2, 4, 5} : s[k] \in 48..57

\* C16: for zero-padded "HH:MM" open, close and now with close > open the
\* lexicographic test open <= now < close of the open check gives the
\* result of the numeric test on minutes since midnight (60*HH+MM), and
\* the now string built from the clock is zero-padded to two digits per
\* field.
C16_LexicographicIsNumeric ==
    /\ IsZeroPadded(currentTime(now))
    /\ MinutesOf(currentTime(now)) = 60 * now.hours + now.minutes
    /\ (OpenEvaluated /\ HasEntry /\ MinutesOf(Entry.close) > MinutesOf(Entry.open))
          => (isOpen <=> (MinutesOf(Entry.open) <= 60 * now.hours + now.minutes
                          /\ 60 * now.hours + now.minutes < MinutesOf(Entry.close)))

C16_Witness ==
    /\ pcHours = "open"
    /\ openingHours = (1 :> [open |-> HHMM(2, 10), close |-> HHMM(10, 0)])
    /\ now = [day |-> 1, hours |-> 9, minutes |-> 59]
    /\ isOpen = TRUE

====
